---- MODULE Spec2Model ----
(***************************************************************************)
(* The read-parse-dispatch loop of viper's interactive console             *)
(* (viper/core/ui/console.py, class Console).                              *)
(*                                                                         *)
(* Strings are modelled as sequences of lexical tokens.  Every token is a  *)
(* piece of text; a string is the concatenation of its tokens.  The        *)
(* alphabet is chosen so that the tests the code makes on characters       *)
(* ('>' in data, data.startswith('!'), split(';'), split() on white space, *)
(* '$self' in data) are tests on single tokens: no token other than ">"    *)
(* contains '>', and so on, and no concatenation of word tokens equals     *)
(* another word token.                                                     *)
(***************************************************************************)
EXTENDS Integers, Sequences, FiniteSets, TLC

\* Longest typed line, in tokens, of the exhaustively enumerated input.
MaxLen == 3

\* Most items a handler or a module appends to its output buffer, and most
\* items the buffer of the built-in commands is let grow to.
MaxOutput == 1

\* Python's None: a value distinct from every string over Tokens.
None == <<"<None>">>

SP == " "
SEMI == ";"
GT == ">"
BANG == "!"
SELF == "$self"

\* The tokens of the exhaustively enumerated input lines.
Tokens == {SP, SEMI, GT, SELF, "exit", "quit", "find", "pdf", "zzz"}

\* self.cmd.commands: the names of the built-in commands (keys of the table).
Commands == {<<"find">>}

\* __modules__: the names of the loaded modules (keys of the registry).  The
\* registry is filled by a plugin loader, so a module can carry the name of a
\* built-in command.
Modules == {<<"pdf">>, <<"find">>}

\* __sessions__.current.file.path of the sessions that can be opened.
Paths == {<<"/tmp/sample">>}

\* The input lines of the testable properties of the specification:
\* "find name *.pdf > out.txt; pdf id" and "cmdA; badCmd; cmdC" with their
\* words taken from Tokens.
ChainExample == <<"find", SEMI, SP, "pdf", SEMI, SP, "find">>
RedirectExample == <<"find", SP, "zzz", SP, GT, SP, "zzz", SEMI, SP, "pdf", SP, "zzz">>

RECURSIVE StringsUpTo(_)
StringsUpTo(n) ==
    IF n = 0 THEN {<<>>}
    ELSE LET shorter == StringsUpTo(n - 1)
         IN  shorter \cup {Append(s, t) : s \in {x \in shorter : Len(x) = n - 1}, t \in Tokens}

\* Shell escapes: "!zzz", "!zzz > zzz", "!zzz $self", "!find; pdf" and
\* "!zzz > zzz > zzz".
ShellExamples ==
    { <<BANG, "zzz">>,
      <<BANG, "zzz", SP, GT, SP, "zzz">>,
      <<BANG, "zzz", SP, SELF>>,
      <<BANG, "find", SEMI, SP, "pdf">>,
      <<BANG, "zzz", SP, GT, SP, "zzz", SP, GT, SP, "zzz">> }

\* What input(prompt) can return: every string of at most MaxLen tokens, and
\* the examples.
Lines == StringsUpTo(MaxLen) \cup {ChainExample, RedirectExample} \cup ShellExamples

(***************************************************************************)
(* Python string operations, on token sequences.                           *)
(***************************************************************************)
Contains(s, t) == \E i \in 1..Len(s) : s[i] = t

Count(s, t) == Cardinality({i \in 1..Len(s) : s[i] = t})

First(s, t) == CHOOSE i \in 1..Len(s) : s[i] = t /\ \A j \in 1..(i - 1) : s[j] # t

\* str.strip(): drops leading and trailing white space.
RECURSIVE lstrip(_)
lstrip(s) == IF s # <<>> /\ Head(s) = SP THEN lstrip(Tail(s)) ELSE s

RECURSIVE rstrip(_)
rstrip(s) == IF s # <<>> /\ s[Len(s)] = SP THEN rstrip(SubSeq(s, 1, Len(s) - 1)) ELSE s

strip(s) == rstrip(lstrip(s))

\* str.split(sep): every piece between separators, empty pieces included.
RECURSIVE split(_, _)
split(s, sep) ==
    IF ~Contains(s, sep) THEN <<s>>
    ELSE LET i == First(s, sep)
         IN  <<SubSeq(s, 1, i - 1)>> \o split(SubSeq(s, i + 1, Len(s)), sep)

\* str.split(): the maximal runs of non-white-space, no empty piece.
RECURSIVE words(_)
words(s) ==
    LET t == lstrip(s)
    IN  IF t = <<>> THEN <<>>
        ELSE IF ~Contains(t, SP) THEN <<t>>
        ELSE LET i == First(t, SP)
             IN  <<SubSeq(t, 1, i - 1)>> \o words(SubSeq(t, i + 1, Len(t)))

\* str.replace(old, new) for a one-token old.
RECURSIVE replace(_, _, _)
RECURSIVE replace_First(_, _, _)
\* s.replace(old, new, 1): only the first occurrence.
replace_First(s, old, new) ==
    IF s = <<>> THEN <<>>
    ELSE IF Head(s) = old THEN new \o Tail(s)
    ELSE <<Head(s)>> \o replace_First(Tail(s), old, new)

replace(s, old, new) ==
    IF s = <<>> THEN <<>>
    ELSE (IF Head(s) = old THEN new ELSE <<Head(s)>>) \o replace(Tail(s), old, new)

startswith(s, t) == s # <<>> /\ Head(s) = t

(***************************************************************************)
(* State.                                                                  *)
(***************************************************************************)
VARIABLES
    active,          \* self.active
    filename,        \* console_output['filename']: None is the terminal
    sessions,        \* __sessions__: None, or current.file.path of the open session
    split_commands,  \* the chain units the for loop has still to visit
    pc,              \* position of Console.start
    line,            \* the data read in this iteration (input(prompt).strip())
    dispatched,      \* the chain units this iteration has parsed and resolved
    system,          \* the arguments of this iteration's os.system calls
    out,             \* what this iteration has printed
    cmd_output,      \* self.cmd.output
    store_output,    \* cfg.modules.store_output
    module,          \* module.output of the instance the local module is bound to,
                     \* empty while there is none
    calls,           \* this iteration's calls on modules and on Database()
    fn_args,         \* the arguments of a function that is called on its own
    fn_result        \* what it returned

iovars == <<cmd_output, store_output, module, calls>>
fnvars == <<fn_args, fn_result>>

vars == <<active, filename, sessions, split_commands, pc, line, dispatched, system, out,
          cmd_output, store_output, module, calls, fn_args, fn_result>>

\* What printing produces.
NoOpenSession == <<"No open session">>
WritingOutputTo(f) == <<"Writing output to ">> \o strip(f)
NotRecognized == <<"Command not recognized.">>
RaisedException(root) == <<"The command ">> \o root \o <<" raised an exception:">>
Blank == <<"">>

\* How the call of a handler or of a module can end.
Results == {"return", "Exception", "KeyboardInterrupt"}

\* __sessions__.is_set()
is_set == sessions # None

\* Console.keywords without the discard: the line goes on with its $self.
keywords_NoDiscard(data) ==
    IF Contains(data, SELF) /\ is_set THEN replace(data, SELF, sessions) ELSE data

\* Console.keywords: None when the line is to be discarded.
keywords(data) ==
    IF Contains(data, SELF)
    THEN IF is_set THEN replace(data, SELF, sessions) ELSE None
    ELSE data

\* What Console.keywords prints for data.
keywords_out(data) ==
    IF Contains(data, SELF) /\ ~is_set THEN <<NoOpenSession>> ELSE <<>>

\* Console.parse: words[0] of an empty list raises IndexError.
IndexError == <<"<IndexError>">>

parse(data) ==
    LET w == words(data)
    IN  IF w = <<>> THEN [root |-> IndexError, args |-> <<>>]
        ELSE [root |-> w[1], args |-> Tail(w)]

\* root == 'exit'
Terminates_OnlyExit(root) == root = <<"exit">>

\* root in ('exit', 'quit')
Terminates(root) == root \in {<<"exit">>, <<"quit">>}

\* data, console_output['filename'] = data.split('>'): the unpacking raises
\* ValueError unless split returns exactly two pieces.
Unpacks(data) == Len(split(data, GT)) = 2

Init ==
    /\ active = TRUE
    /\ filename = None
    /\ sessions = None
    /\ split_commands = <<>>
    /\ pc = "loop"
    /\ line = None
    /\ dispatched = <<>>
    /\ system = <<>>
    /\ out = <<>>
    /\ cmd_output = <<>>
    /\ store_output = FALSE
    /\ module = <<>>
    /\ calls = <<>>
    /\ fn_args = None
    /\ fn_result = None

(***************************************************************************)
(* One iteration of the main loop, from input(prompt) to the for loop over *)
(* the chain units or to the continue that ends the iteration.             *)
(***************************************************************************)
ReadLine(typed) ==
    /\ pc = "loop"
    /\ active
    /\ LET data0 == strip(typed)
           data1 == keywords(data0)
       IN  /\ line' = data0
           /\ dispatched' = <<>>
           /\ UNCHANGED <<active, sessions, iovars, fnvars>>
           /\ IF data1 = None \/ data1 = <<>>
              THEN /\ out' = keywords_out(data0)
                   /\ system' = <<>>
                   /\ pc' = "next"
                   /\ UNCHANGED <<filename, split_commands>>
              ELSE IF Contains(data1, GT) /\ ~Unpacks(data1)
              THEN /\ out' = <<>>
                   /\ system' = <<>>
                   /\ pc' = "crashed"
                   /\ UNCHANGED <<filename, split_commands>>
              ELSE LET redirect == Contains(data1, GT)
                       data2 == IF redirect THEN split(data1, GT)[1] ELSE data1
                   IN  /\ filename' = IF redirect THEN split(data1, GT)[2] ELSE filename
                       /\ out' = IF redirect THEN <<WritingOutputTo(split(data1, GT)[2])>> ELSE <<>>
                       /\ IF startswith(data2, BANG)
                          THEN /\ system' = <<Tail(data2)>>
                               /\ pc' = "next"
                               /\ UNCHANGED split_commands
                          ELSE /\ system' = <<>>
                               /\ split_commands' = split(data2, SEMI)
                               /\ pc' = "chain"

\* KeyboardInterrupt raised by input(prompt).
ReadInterrupt ==
    /\ pc = "loop"
    /\ active
    /\ out' = <<Blank>>
    /\ pc' = "next"
    /\ UNCHANGED <<active, filename, sessions, split_commands, line, dispatched, system>>
    /\ UNCHANGED <<iovars, fnvars>>

\* EOFError raised by input(prompt).
ReadEOF ==
    /\ pc = "loop"
    /\ active
    /\ active' = FALSE
    /\ out' = <<Blank>>
    /\ pc' = "next"
    /\ UNCHANGED <<filename, sessions, split_commands, line, dispatched, system>>
    /\ UNCHANGED <<iovars, fnvars>>

\* The modules looked up before the built-in commands.
Resolve_ModulesFirst(root) ==
    IF Terminates(root) THEN "stop"
    ELSE IF root \in Modules THEN "module"
    ELSE IF root \in Commands THEN "command"
    ELSE "unrecognized"

\* "else" in the place of "elif root in __modules__".
Resolve_ElseModule(root) ==
    IF Terminates(root) THEN "stop"
    ELSE IF root \in Commands THEN "command"
    ELSE "module"

\* The branch the for loop takes for a root command: the termination keywords
\* first, then the built-in commands, then the modules.
Resolve(root) ==
    IF Terminates(root) THEN "stop"
    ELSE IF root \in Commands THEN "command"
    ELSE IF root \in Modules THEN "module"
    ELSE "unrecognized"

\* One except clause for Exception and KeyboardInterrupt.
Reported_Interrupts(result) == result # "return"

\* "except Exception" prints the report; "except KeyboardInterrupt" passes.
Reported(result) == result = "Exception"

\* One round of "for split_command in split_commands" for a non-empty unit.
\* result is how the handler or the module ends, session is the session the
\* handler leaves behind (open, close and the like change it).
Dispatch(split_command, result, session) ==
    LET p == parse(split_command)
        kind == Resolve(p.root)
        unit(res) == [unit |-> split_command, root |-> p.root, args |-> p.args,
                      kind |-> kind, result |-> res, target |-> filename]
    IN  IF kind = "stop"
        THEN /\ active' = FALSE
             /\ dispatched' = Append(dispatched, unit("return"))
             /\ UNCHANGED <<sessions, out>>
        ELSE IF kind = "command"
        THEN /\ dispatched' = Append(dispatched, unit(result))
             /\ sessions' = session
             /\ out' = IF Reported(result) THEN Append(out, RaisedException(p.root)) ELSE out
             /\ UNCHANGED active
        ELSE IF kind = "module"
        THEN /\ dispatched' = Append(dispatched, unit(result))
             /\ out' = IF Reported(result) THEN Append(out, RaisedException(p.root)) ELSE out
             /\ UNCHANGED <<active, sessions>>
        ELSE /\ dispatched' = Append(dispatched, unit("return"))
             /\ out' = Append(out, NotRecognized)
             /\ UNCHANGED <<active, sessions>>

(***************************************************************************)
(* The output buffers, the module instances and the persistent store.      *)
(***************************************************************************)
\* The items a handler or a module can append to its output buffer.
Wrote(n) == [i \in 1..n |-> "text"]

\* Where a module call that does not return raises.
Stages == {"obj", "set_commandline", "run"}

\* What a handler or a module does besides ending with a result: the output
\* it appends, the call that raises when the module does not return, and
\* whether Database().add_analysis raises.
IOs == [wrote : {Wrote(n) : n \in 0..MaxOutput}, stage : Stages, store_fails : BOOLEAN]

\* A handler or module that appends nothing, and a store that works.
Quiet == [wrote |-> <<>>, stage |-> "run", store_fails |-> FALSE]

\* __sessions__.current.file.sha256
sha256(file) == <<"sha256 of ">> \o file

\* __modules__[root]['obj'](): the output buffer of the instance the factory
\* returns, previous being the buffer of the instance created before.
obj(previous) == <<>>

\* The session not asked for.
Stores_FlagOnly == store_output

\* cfg.modules.store_output and __sessions__.is_set()
Stores == store_output /\ is_set

\* run() called before set_commandline().
Protocol_RunFirst(create, commandline, run) == <<create, run, commandline>>

\* The order of the three calls on a module.
Protocol(create, commandline, run) == <<create, commandline, run>>

\* The calls of one dispatch of a module, the n-th unit of the line: the
\* factory, set_commandline, run, then add_analysis and the del that clears
\* module.output.  A call that raises is the last one.
ModuleCalls(n, split_command, margs, result, io) ==
    LET c(name, arg, raised) == [call |-> name, n |-> n, arg |-> arg, raised |-> raised]
        stage == IF result = "return" THEN "done" ELSE io.stage
        three == Protocol(c("obj", <<>>, stage = "obj"),
                          c("set_commandline", margs, stage = "set_commandline"),
                          c("run", <<obj(module)>>, stage = "run"))
    IN  IF stage = "obj" THEN SubSeq(three, 1, 1)
        ELSE IF stage = "set_commandline" THEN SubSeq(three, 1, 2)
        ELSE IF stage = "run" THEN three
        ELSE three
             \o (IF Stores
                 THEN <<c("add_analysis",
                          <<sha256(sessions), split_command, obj(module) \o io.wrote>>,
                          io.store_fails)>>
                 ELSE <<>>)
             \o <<c("del", <<>>, FALSE)>>

\* What one round of the for loop does to the buffers.
Buffers(split_command, result, io) ==
    LET p == parse(split_command)
        kind == Resolve(p.root)
    IN  IF kind = "command"
        THEN /\ result # "return" => Len(cmd_output) + Len(io.wrote) <= MaxOutput
             /\ cmd_output' = IF result = "return" THEN <<>> ELSE cmd_output \o io.wrote
             /\ UNCHANGED <<module, calls>>
        ELSE IF kind = "module"
        THEN /\ calls' = calls \o ModuleCalls(Len(dispatched) + 1, split_command, p.args, result, io)
             /\ module' = IF result = "return" THEN <<>>
                          ELSE IF io.stage = "obj" THEN module
                          ELSE IF io.stage = "set_commandline" THEN obj(module)
                          ELSE obj(module) \o io.wrote
             /\ UNCHANGED cmd_output
        ELSE UNCHANGED <<cmd_output, module, calls>>

\* The round without lines 215-216: an empty unit is parsed and dispatched.
ChainStep_NoSkip(ios) ==
    /\ pc = "chain"
    /\ split_commands # <<>>
    /\ split_commands' = Tail(split_commands)
    /\ \E result \in Results, session \in {None} \cup Paths, io \in ios :
           /\ Dispatch(strip(Head(split_commands)), result, session)
           /\ Buffers(strip(Head(split_commands)), result, io)
    /\ UNCHANGED <<filename, pc, line, system, store_output, fnvars>>

\* One round of the for loop, with handlers and modules that behave as ios.
ChainStep(ios) ==
    /\ pc = "chain"
    /\ split_commands # <<>>
    /\ split_commands' = Tail(split_commands)
    /\ LET split_command == strip(Head(split_commands))
       IN  IF split_command = <<>>
           THEN UNCHANGED <<active, sessions, dispatched, out, cmd_output, module, calls>>
           ELSE \E result \in Results, session \in {None} \cup Paths, io \in ios :
                    /\ Dispatch(split_command, result, session)
                    /\ Buffers(split_command, result, io)
    /\ UNCHANGED <<filename, pc, line, system, store_output, fnvars>>

\* The round with handlers and modules that print to the terminal and leave
\* their buffers as they found them.
ChainUnit == ChainStep({Quiet})

\* The round with handlers and modules that fill their buffers.
ChainUnitIO == ChainStep(IOs)

\* The for loop is over: console_output['filename'] = None.
ChainEnd ==
    /\ pc = "chain"
    /\ split_commands = <<>>
    /\ filename' = None
    /\ pc' = "next"
    /\ UNCHANGED <<active, sessions, split_commands, line, dispatched, system, out>>
    /\ UNCHANGED <<iovars, fnvars>>

\* Back to the test of the while loop.
NextIteration ==
    /\ pc = "next"
    /\ pc' = "loop"
    /\ line' = None
    /\ dispatched' = <<>>
    /\ system' = <<>>
    /\ out' = <<>>
    /\ calls' = <<>>
    /\ UNCHANGED <<active, filename, sessions, split_commands>>
    /\ UNCHANGED <<cmd_output, store_output, module, fnvars>>

\* "while self.active" finds the flag false.
LoopExit ==
    /\ pc = "loop"
    /\ ~active
    /\ pc' = "stopped"
    /\ UNCHANGED <<active, filename, sessions, split_commands, line, dispatched, system, out>>
    /\ UNCHANGED <<iovars, fnvars>>

Next ==
    \/ \E typed \in Lines : ReadLine(typed)
    \/ ReadInterrupt
    \/ ReadEOF
    \/ ChainUnit
    \/ ChainEnd
    \/ NextIteration
    \/ LoopExit

Spec == Init /\ [][Next]_vars

(***************************************************************************)
(* The loop with handlers and modules that fill their output buffers, with *)
(* output persistence switched on or off, on lines of commands and modules.*)
(***************************************************************************)
IOTokens == {SP, SEMI, "find", "pdf"}

IOLines == {l \in StringsUpTo(MaxLen) : \A i \in 1..Len(l) : l[i] \in IOTokens}

InitIO ==
    /\ active = TRUE
    /\ filename = None
    /\ sessions = None
    /\ split_commands = <<>>
    /\ pc = "loop"
    /\ line = None
    /\ dispatched = <<>>
    /\ system = <<>>
    /\ out = <<>>
    /\ cmd_output = <<>>
    /\ store_output \in BOOLEAN
    /\ module = <<>>
    /\ calls = <<>>
    /\ fn_args = None
    /\ fn_result = None

NextIO ==
    \/ \E typed \in IOLines : ReadLine(typed)
    \/ ReadEOF
    \/ ChainUnitIO
    \/ ChainEnd
    \/ NextIteration
    \/ LoopExit

SpecIO == InitIO /\ [][NextIO]_vars

(***************************************************************************)
(* The completer, complete(text, state), called as readline calls it: for  *)
(* state = 0, 1, 2, ... until it returns something that is no string.      *)
(* Here strings are sequences of characters.                               *)
(***************************************************************************)
\* Longest text to complete, in characters.
MaxPrefix == 2

Chars == {"f", "i", "p", "~", "/"}

\* The characters of a word token.
Letters(t) ==
    CASE t = "find" -> <<"f", "i", "n", "d">>
      [] t = "pdf" -> <<"p", "d", "f">>
      [] t = "exit" -> <<"e", "x", "i", "t">>
      [] t = "quit" -> <<"q", "u", "i", "t">>
      [] OTHER -> <<"z", "z", "z">>

RECURSIVE Spell(_)
Spell(word) == IF word = <<>> THEN <<>> ELSE Letters(Head(word)) \o Spell(Tail(word))

\* The order in which a dict or a directory lists its entries: arbitrary,
\* and the same on every listing.
RECURSIVE Listing(_)
Listing(S) ==
    IF S = {} THEN <<>>
    ELSE LET x == CHOOSE y \in S : TRUE IN <<x>> \o Listing(S \ {x})

\* "for i in self.cmd.commands" and "for i in __modules__"
CommandKeys == Listing({Spell(w) : w \in Commands})
ModuleKeys == Listing({Spell(w) : w \in Modules})

\* expanduser("~"), and the paths that can exist in the file system.
Home == <<"/", "h">>
Files == { <<"f", "a">>, <<"f", "i", "l", "e">>, <<"p">>, <<"/", "h", "/", "f">> }

RECURSIVE TextsUpTo(_)
TextsUpTo(n) ==
    IF n = 0 THEN {<<>>}
    ELSE LET shorter == TextsUpTo(n - 1)
         IN  shorter \cup {Append(s, c) : s \in {x \in shorter : Len(x) = n - 1}, c \in Chars}

\* i.startswith(text)
has_prefix(i, text) == Len(text) <= Len(i) /\ SubSeq(i, 1, Len(text)) = text

Matching(list, text) ==
    LET Match(i) == has_prefix(i, text) IN SelectSeq(list, Match)

\* glob.glob(text + '*') in the file system fs
glob(fs, text) == Matching(Listing(fs), text)

\* "{0}{1}".format(expanduser("~"), text[1:])
expanduser(text) == IF has_prefix(text, <<"~">>) THEN Home \o Tail(text) ELSE text

\* complete(text, state): a candidate, None, or the IndexError of an index
\* past the end of glob.glob(text+'*')+[None].
complete(text, state, fs) ==
    LET completions == Matching(CommandKeys, text) \o Matching(ModuleKeys, text)
        paths == glob(fs, expanduser(text)) \o <<None>>
    IN  IF state < Len(completions) THEN completions[state + 1]
        ELSE IF state < Len(paths) THEN paths[state + 1]
        ELSE IndexError

InitComplete ==
    /\ active = TRUE
    /\ filename = None
    /\ sessions = None
    /\ split_commands = <<>>
    /\ pc = "complete"
    /\ line = None
    /\ dispatched = <<>>
    /\ system = <<>>
    /\ out = <<>>
    /\ cmd_output = <<>>
    /\ store_output = FALSE
    /\ module = <<>>
    /\ calls = <<>>
    /\ fn_args \in [text : TextsUpTo(MaxPrefix), fs : SUBSET Files]
    /\ fn_result = <<>>

\* readline asks for the next candidate.
Complete ==
    /\ pc = "complete"
    /\ fn_result # <<>> => fn_result[Len(fn_result)] \notin {None, IndexError}
    /\ fn_result' = Append(fn_result, complete(fn_args.text, Len(fn_result), fn_args.fs))
    /\ UNCHANGED <<active, filename, sessions, split_commands, pc, line, dispatched, system, out>>
    /\ UNCHANGED <<iovars, fn_args>>

SpecComplete == InitComplete /\ [][Complete]_vars

(***************************************************************************)
(* Console.keywords on its own: one call on a line, with any session.      *)
(***************************************************************************)
\* Paths of files that hold the characters the console gives a meaning to.
OddPaths ==
    { <<"/tmp/a", SEMI, "exit">>, <<"/tmp/a", SP, GT, SP, "/tmp/b">>,
      <<"/tmp/a", SP, "b">>, <<BANG, "find">>, <<"/tmp/", SELF>> }

AnyPaths == Paths \cup OddPaths

InitKeywords ==
    /\ active = TRUE
    /\ filename = None
    /\ sessions \in {None} \cup AnyPaths
    /\ split_commands = <<>>
    /\ pc = "keywords"
    /\ line = None
    /\ dispatched = <<>>
    /\ system = <<>>
    /\ out = <<>>
    /\ cmd_output = <<>>
    /\ store_output = FALSE
    /\ module = <<>>
    /\ calls = <<>>
    /\ fn_args \in Lines
    /\ fn_result = None

\* data = self.keywords(data)
Keywords ==
    /\ pc = "keywords"
    /\ fn_result' = keywords(fn_args)
    /\ out' = out \o keywords_out(fn_args)
    /\ pc' = "returned"
    /\ UNCHANGED <<active, filename, sessions, split_commands, line, dispatched, system>>
    /\ UNCHANGED <<iovars, fn_args>>

SpecKeywords == InitKeywords /\ [][Keywords]_vars

(***************************************************************************)
(* The prompt of one iteration.  A prompt is a sequence of pieces, each a  *)
(* text in a style, so that a text in one colour is never taken for the    *)
(* same text in another.                                                   *)
(***************************************************************************)
\* bold(cyan(text)), cyan(text, True), white(text, True), ...
Styled(style, text) == <<[style |-> style, text |-> text]>>

\* An uncoloured string; the empty string adds nothing.
Plain(text) == IF text = <<>> THEN <<>> ELSE <<[style |-> "plain", text |-> text]>>

NotStoredMarker == Styled("magenta", <<" [not stored]">>)

\* __project__.name, '' when there is no project.
ProjectNames == {<<>>, <<"proj">>}

\* __sessions__.current.file: whether there is one, its name, and whether
\* Database().find(key='sha256', ...) finds it.
FileNames == {<<"sample.exe">>, <<" [not stored]">>}
SessionFiles == [present : BOOLEAN, name : FileNames, found : BOOLEAN]

\* __sessions__.current.misp_event: whether there is one, event.id (empty
\* when the event has none), and off.
MispEvents == [present : BOOLEAN, id : {<<>>, <<"7">>}, off : BOOLEAN]

\* The marker on every file of a session, found or not.
NotStored_Always(file) == file.present

\* if __sessions__.current.file: if not Database().find(...)
NotStored(file) == file.present /\ ~file.found

MispSummary(misp) ==
    IF ~misp.present THEN <<>>
    ELSE <<"[MISP">>
         \o (IF misp.id # <<>> THEN <<" ">> \o misp.id ELSE <<" New Event">>)
         \o (IF misp.off THEN <<" (Offline)">> ELSE <<>>)
         \o <<"]">>

BuildPrompt(project, file, misp) ==
    LET prefix == IF project # <<>> THEN Styled("bold cyan", project) \o Plain(<<" ">>) ELSE <<>>
        shown == IF file.present THEN file.name ELSE <<>>
        stored == IF NotStored(file) THEN NotStoredMarker ELSE Plain(<<>>)
    IN  IF is_set
        THEN prefix \o Styled("cyan", <<"viper ">>) \o Styled("white", shown)
             \o Styled("blue", MispSummary(misp)) \o stored \o Styled("cyan", <<" > ">>)
        ELSE prefix \o Styled("cyan", <<"viper > ">>)

InitPrompt ==
    /\ active = TRUE
    /\ filename \in {None, <<"out">>}
    /\ sessions \in {None} \cup Paths
    /\ split_commands = <<>>
    /\ pc = "prompt"
    /\ line = None
    /\ dispatched = <<>>
    /\ system = <<>>
    /\ out = <<>>
    /\ cmd_output = <<>>
    /\ store_output = FALSE
    /\ module = <<>>
    /\ calls = <<>>
    /\ fn_args \in [project : ProjectNames, file : SessionFiles, misp : MispEvents]
    /\ fn_result = <<>>

\* Lines 144-171: from "while self.active" to the prompt.
Prompt ==
    /\ pc = "prompt"
    /\ active
    /\ fn_result' = BuildPrompt(fn_args.project, fn_args.file, fn_args.misp)
    /\ pc' = "prompted"
    /\ UNCHANGED <<active, filename, sessions, split_commands, line, dispatched, system, out>>
    /\ UNCHANGED <<iovars, fn_args>>

SpecPrompt == InitPrompt /\ [][Prompt]_vars

(***************************************************************************)
(* One typed line with $self, processed in a session on one file and then  *)
(* in a session on another: what lines 175-220 make of it each time.       *)
(***************************************************************************)
ShapeTokens == {SP, SEMI, GT, SELF, "find"}

RECURSIVE ShapeStringsUpTo(_)
ShapeStringsUpTo(n) ==
    IF n = 0 THEN {<<>>}
    ELSE LET shorter == ShapeStringsUpTo(n - 1)
         IN  shorter \cup
             {Append(s, t) : s \in {x \in shorter : Len(x) = n - 1}, t \in ShapeTokens}

SelfLines == {l \in ShapeStringsUpTo(MaxLen) : Contains(l, SELF)}

\* The units the for loop parses: each piece trimmed, the empty ones skipped.
ParsedUnits(data) ==
    LET pieces == split(data, SEMI)
        Kept(u) == u # <<>>
    IN  SelectSeq([i \in 1..Len(pieces) |-> strip(pieces[i])], Kept)

\* What the iteration does with the typed line in the current session:
\* whether the unpacking at line 195 fails, the redirect target, whether
\* os.system is called, and the roots of the units parsed.
Processing(typed) ==
    LET data1 == keywords(strip(typed))
        NoUnits == [crashed |-> FALSE, target |-> None, system |-> FALSE, roots |-> <<>>]
    IN  IF data1 = None \/ data1 = <<>> THEN NoUnits
        ELSE IF Contains(data1, GT) /\ ~Unpacks(data1)
        THEN [NoUnits EXCEPT !.crashed = TRUE]
        ELSE LET redirect == Contains(data1, GT)
                 data2 == IF redirect THEN split(data1, GT)[1] ELSE data1
                 target == IF redirect THEN split(data1, GT)[2] ELSE None
                 units == ParsedUnits(data2)
             IN  IF startswith(data2, BANG)
                 THEN [NoUnits EXCEPT !.target = target, !.system = TRUE]
                 ELSE [NoUnits EXCEPT !.target = target,
                                      !.roots = [i \in 1..Len(units) |-> parse(units[i]).root]]

InitShape ==
    /\ active = TRUE
    /\ filename = None
    /\ sessions \in AnyPaths
    /\ split_commands = <<>>
    /\ pc = "first"
    /\ line = None
    /\ dispatched = <<>>
    /\ system = <<>>
    /\ out = <<>>
    /\ cmd_output = <<>>
    /\ store_output = FALSE
    /\ module = <<>>
    /\ calls = <<>>
    /\ fn_args \in SelfLines
    /\ fn_result = <<>>

\* The line is typed and processed in the current session.
ProcessLine ==
    /\ pc \in {"first", "second"}
    /\ fn_result' = Append(fn_result, Processing(fn_args))
    /\ pc' = IF pc = "first" THEN "switch" ELSE "done"
    /\ UNCHANGED <<active, filename, sessions, split_commands, line, dispatched, system, out>>
    /\ UNCHANGED <<iovars, fn_args>>

\* The session is now on a file with another path.
OtherFile ==
    /\ pc = "switch"
    /\ sessions' \in AnyPaths \ {sessions}
    /\ pc' = "second"
    /\ UNCHANGED <<active, filename, split_commands, line, dispatched, system, out>>
    /\ UNCHANGED <<iovars, fnvars>>

NextShape == ProcessLine \/ OtherFile

SpecShape == InitShape /\ [][NextShape]_vars

(***************************************************************************)
(* Vocabulary of the properties.                                           *)
(***************************************************************************)
TerminationKeywords == {<<"exit">>, <<"quit">>}

NotEmpty(u) == u # <<>>

\* The chain units of a command part: its pieces between ';', trimmed, the
\* empty ones left out.
UnitsOf(data) ==
    LET pieces == split(data, SEMI)
    IN  SelectSeq([i \in 1..Len(pieces) |-> strip(pieces[i])], NotEmpty)

RootOf(u) == words(u)[1]

\* The text before and after the first '>' of a line that has one.
BeforeGT(l) == SubSeq(l, 1, First(l, GT) - 1)
AfterGT(l) == SubSeq(l, First(l, GT) + 1, Len(l))

\* The texts of the units dispatched so far, in the order of their dispatch.
UnitTexts == [i \in 1..Len(dispatched) |-> dispatched[i].unit]

IsErrorReport(o) == o # <<>> /\ o[1] = "The command "
Raised(d) == d.result = "Exception"

\* The error reports printed so far, and the reports the units that raised an
\* error call for.
ErrorReports == SelectSeq(out, IsErrorReport)
ReportsDue ==
    LET r == SelectSeq(dispatched, Raised)
    IN  [i \in 1..Len(r) |-> <<"The command ">> \o r[i].root \o <<" raised an exception:">>]

\* A line that is read, and is neither a shell escape nor a redirect and
\* holds no keyword.
ChainLine(l) ==
    /\ l # None
    /\ ~Contains(l, GT)
    /\ ~Contains(l, SELF)
    /\ ~startswith(l, BANG)

\* A line u1; ...; un of non-empty units none of which is exit or quit.
PlainChain(l) ==
    /\ ChainLine(l)
    /\ \A i \in 1..Len(split(l, SEMI)) :
          /\ strip(split(l, SEMI)[i]) # <<>>
          /\ RootOf(split(l, SEMI)[i]) \notin TerminationKeywords

\* A line A > F; B.
RedirectChain(l) ==
    /\ l # None
    /\ Count(l, GT) = 1
    /\ ~Contains(l, SELF)
    /\ ~startswith(l, BANG)
    /\ ~Contains(BeforeGT(l), SEMI)
    /\ Count(AfterGT(l), SEMI) = 1
    /\ strip(BeforeGT(l)) # <<>>
    /\ \A i \in 1..2 : strip(split(AfterGT(l), SEMI)[i]) # <<>>

(***************************************************************************)
(* C1.  Each time Console.start is about to read an input line, the        *)
(* redirect target console_output['filename'] is None (the terminal).      *)
(* The code breaks it: "!ls > out.txt" sets the target and leaves the      *)
(* iteration by the continue of the shell escape, before the reset.        *)
(***************************************************************************)
C1_RedirectNeverLeaks == (pc = "loop" /\ active) => filename = None

(***************************************************************************)
(* C2.  A line that begins with '!' runs exactly one external command, the *)
(* text after the '!' unmodified, dispatches no chain unit and prints      *)
(* neither the keyword notice nor the redirect notice.  The code breaks    *)
(* it: keywords and the redirect split run before the test for '!'.        *)
(***************************************************************************)
C2_ShellEscapeVerbatim ==
    startswith(line, BANG) =>
        /\ pc = "next"
        /\ system = <<Tail(line)>>
        /\ dispatched = <<>>
        /\ out = <<>>

(***************************************************************************)
(* C3.  When the chain of a line u1; ...; un of non-empty units without    *)
(* exit or quit is over, every unit has been dispatched exactly once, in   *)
(* order, the error reports printed are those of the units that raised an  *)
(* error, each naming its root, and the active flag is still true.         *)
(***************************************************************************)
C3_FailureIsolation ==
    PlainChain(line) =>
        /\ pc \in {"chain", "next"}
        /\ active
        /\ ErrorReports = ReportsDue
        /\ \A i \in 1..Len(dispatched) : dispatched[i].kind # "stop"
        /\ pc = "next" => UnitTexts = UnitsOf(line)

C3_Witness ==
    /\ pc = "next"
    /\ PlainChain(line)
    /\ Len(dispatched) = 3
    /\ dispatched[1].result = "return"
    /\ dispatched[2].result = "Exception"
    /\ dispatched[3].result = "return"
    /\ active

(***************************************************************************)
(* C4.  For a line A > F; B both A and B are dispatched and the redirect   *)
(* target is F while each of them executes.  The code breaks it: it takes  *)
(* everything after the '>' as the target, "; B" included.                 *)
(***************************************************************************)
C4_RedirectCoversChain ==
    (pc = "next" /\ RedirectChain(line)) =>
        /\ UnitTexts = <<strip(BeforeGT(line)), strip(split(AfterGT(line), SEMI)[2])>>
        /\ \A i \in 1..Len(dispatched) :
              dispatched[i].target = strip(split(AfterGT(line), SEMI)[1])

(***************************************************************************)
(* C5.  The loop never escapes with an uncaught error, and the active flag *)
(* is false only after end-of-input was read or a unit whose root is exit  *)
(* or quit was dispatched.  The code breaks it: a line with two '>' raises *)
(* ValueError in the unpacking of data.split('>').                         *)
(***************************************************************************)
C5_OnlyExplicitTermination ==
    /\ pc # "crashed"
    /\ (pc \in {"chain", "next"} /\ ~active) =>
          \/ line = None /\ out = <<Blank>>
          \/ \E i \in 1..Len(dispatched) : dispatched[i].root \in TerminationKeywords

(***************************************************************************)
(* C6.  For a line with one or more '>' the command part is the text       *)
(* before the first '>' and the target held during the dispatch is the     *)
(* text after it, trimmed; for a line without '>' the target is None.  The *)
(* code breaks it: the target is stored untrimmed, a second '>' raises     *)
(* ValueError, and a target leaked by a shell escape survives.             *)
(***************************************************************************)
C6_SplitOnFirstGT ==
    (line # None /\ ~Contains(line, SELF)) =>
        /\ Contains(line, GT) => pc # "crashed"
        /\ (pc = "chain" /\ Contains(line, GT)) => filename = strip(AfterGT(line))
        /\ (pc = "chain" /\ ~Contains(line, GT)) => filename = None
        /\ (pc = "next" /\ Contains(line, GT) /\ ~startswith(line, BANG)) =>
              UnitTexts = UnitsOf(BeforeGT(line))

(***************************************************************************)
(* C7.  Reading a line that contains $self while no session is open:       *)
(* keywords returns None and prints "No open session", and the iteration   *)
(* ends there: no unit is dispatched, no redirect target is set, no        *)
(* external command is run and the active flag stays true.                 *)
(***************************************************************************)
C7_DiscardWithoutSession ==
    [][(pc = "loop" /\ pc' # "loop" /\ sessions = None /\ Contains(line', SELF)) =>
          /\ keywords(line') = None
          /\ out' = <<NoOpenSession>>
          /\ pc' = "next"
          /\ dispatched' = <<>>
          /\ system' = <<>>
          /\ filename' = filename
          /\ split_commands' = split_commands
          /\ active']_vars

C7_Witness ==
    /\ pc = "next"
    /\ Contains(line, SELF)
    /\ Contains(line, SEMI)
    /\ out = <<NoOpenSession>>
    /\ dispatched = <<>>

(***************************************************************************)
(* C8.  A unit whose root is exit or quit sets the active flag to false    *)
(* and invokes no handler and no module; the other units of the line are   *)
(* dispatched all the same, in order; once the flag is false it stays      *)
(* false, no line is read any more, and stopped is never left.             *)
(***************************************************************************)
C8_StopInv ==
    /\ \A i \in 1..Len(dispatched) :
          dispatched[i].root \in TerminationKeywords =>
              (dispatched[i].kind = "stop" /\ ~active)
    /\ (pc = "next" /\ ChainLine(line)) => UnitTexts = UnitsOf(line)
    /\ pc = "stopped" => ~active

C8_StopStep ==
    /\ ~active => ~active'
    /\ (~active /\ pc = "loop") => (pc' = "stopped" /\ line' = line)
    /\ pc # "stopped"

C8_Termination == [](C8_StopInv) /\ [][C8_StopStep]_vars

C8_Witness ==
    /\ pc = "next"
    /\ ~active
    /\ Len(dispatched) = 2
    /\ dispatched[1].root = <<"quit">>
    /\ dispatched[2].kind = "command"

(***************************************************************************)
(* C9.  The round of the for loop for a unit whose root is neither exit    *)
(* nor quit, nor a built-in command, nor a module prints "Command not      *)
(* recognized.", invokes nothing, leaves the active flag as it is and goes *)
(* on with the following units.                                            *)
(***************************************************************************)
C9_Unknown(u) ==
    /\ u # <<>>
    /\ RootOf(u) \notin TerminationKeywords
    /\ RootOf(u) \notin Commands
    /\ RootOf(u) \notin Modules

C9_NotRecognized ==
    [][(pc = "chain" /\ split_commands # <<>> /\ C9_Unknown(strip(Head(split_commands)))) =>
          /\ out' = Append(out, NotRecognized)
          /\ Len(dispatched') = Len(dispatched) + 1
          /\ dispatched'[Len(dispatched')].kind = "unrecognized"
          /\ dispatched'[Len(dispatched')].unit = strip(Head(split_commands))
          /\ active' = active
          /\ sessions' = sessions
          /\ split_commands' = Tail(split_commands)
          /\ pc' = "chain"]_vars

C9_Witness ==
    /\ pc = "next"
    /\ Len(dispatched) = 2
    /\ dispatched[1].root = <<"zzz">>
    /\ dispatched[1].kind = "unrecognized"
    /\ dispatched[2].kind = "module"
    /\ out = <<NotRecognized>>
    /\ active

(***************************************************************************)
(* C10.  A unit whose root is a key of the command table and of the module *)
(* registry invokes the built-in handler; a module is instantiated only    *)
(* for a root that is no key of the command table.                         *)
(***************************************************************************)
C10_BuiltinsFirst ==
    \A i \in 1..Len(dispatched) :
        /\ (dispatched[i].root \in Commands /\ dispatched[i].root \notin TerminationKeywords)
              => dispatched[i].kind = "command"
        /\ dispatched[i].kind = "module"
              => (dispatched[i].root \in Modules /\ dispatched[i].root \notin Commands)

C10_Witness ==
    \E i \in 1..Len(dispatched) :
        /\ dispatched[i].root \in Commands \cap Modules
        /\ dispatched[i].kind = "command"

(***************************************************************************)
(* C11.  After the dispatch of a unit that resolved to a built-in command, *)
(* however its handler ended, self.cmd.output is empty.  The code breaks   *)
(* it: del(self.cmd.output[:]) follows the call inside the try block, so a *)
(* handler that raises or is interrupted leaves what it appended.          *)
(***************************************************************************)
C11_CommandBufferCleared ==
    (dispatched # <<>> /\ dispatched[Len(dispatched)].kind = "command") => cmd_output = <<>>

(***************************************************************************)
(* C12.  The dispatch of a module whose run returns calls add_analysis     *)
(* once, with the hash of the session's file and the text of the unit, if  *)
(* store_output is set and a session is open, and not at all otherwise;    *)
(* whether or not add_analysis raises, nothing is printed, the active flag *)
(* is unchanged, module.output is cleared and the chain goes on.  A module *)
(* that does not return is not stored.                                     *)
(***************************************************************************)
IsAddAnalysis(e) == e.call = "add_analysis"

C12_Step ==
    LET n == Len(dispatched')
        new == SubSeq(calls', Len(calls) + 1, Len(calls'))
        stored == SelectSeq(new, IsAddAnalysis)
    IN  (n = Len(dispatched) + 1 /\ dispatched'[n].kind = "module") =>
            /\ dispatched'[n].result # "return" => stored = <<>>
            /\ dispatched'[n].result = "return" =>
                  /\ Len(stored) = (IF store_output /\ sessions # None THEN 1 ELSE 0)
                  /\ \A i \in 1..Len(stored) :
                        /\ stored[i].arg[1] = <<"sha256 of ">> \o sessions
                        /\ stored[i].arg[2] = dispatched'[n].unit
                        /\ stored[i].n = n
                  /\ new[Len(new)].call = "del"
                  /\ module' = <<>>
                  /\ out' = out
                  /\ active' = active
                  /\ split_commands' = Tail(split_commands)
                  /\ pc' = "chain"

C12_StoreOutput == [][C12_Step]_vars

C12_Witness ==
    /\ pc = "next"
    /\ Len(dispatched) = 2
    /\ dispatched[1].kind = "module"
    /\ dispatched[1].result = "return"
    /\ \E i \in 1..Len(calls) :
          calls[i].call = "add_analysis" /\ calls[i].n = 1 /\ calls[i].raised
    /\ out = <<>>
    /\ active

(***************************************************************************)
(* C18.  Each dispatch of a module calls the factory once, then            *)
(* set_commandline with the words after the root, then run, on the         *)
(* instance the factory returned, until one of them raises; the output     *)
(* buffer of that instance is empty when run starts, whatever earlier      *)
(* invocations appended; units that are no modules call none of them.      *)
(***************************************************************************)
C18_ModuleProtocol ==
    \A n \in 1..Len(dispatched) :
        LET Of(e) == e.n = n /\ e.call \in {"obj", "set_commandline", "run"}
            mine == SelectSeq(calls, Of)
        IN  IF dispatched[n].kind # "module" THEN mine = <<>>
            ELSE /\ Len(mine) \in 1..3
                 /\ mine[1].call = "obj"
                 /\ Len(mine) >= 2 =>
                       /\ mine[2].call = "set_commandline"
                       /\ mine[2].arg = dispatched[n].args
                       /\ ~mine[1].raised
                 /\ Len(mine) = 3 =>
                       /\ mine[3].call = "run"
                       /\ mine[3].arg = << <<>> >>
                       /\ ~mine[2].raised
                 /\ dispatched[n].result = "return" =>
                       (Len(mine) = 3 /\ ~mine[3].raised)
                 /\ dispatched[n].result # "return" => mine[Len(mine)].raised

C18_Witness ==
    /\ pc = "chain"
    /\ Len(dispatched) = 2
    /\ dispatched[1].kind = "module"
    /\ dispatched[1].result = "Exception"
    /\ dispatched[2].kind = "module"
    /\ dispatched[2].result = "return"
    /\ \E i \in 1..Len(calls) : calls[i].call = "run" /\ calls[i].n = 1 /\ calls[i].raised
    /\ \E i \in 1..Len(calls) : calls[i].call = "run" /\ calls[i].n = 2

(***************************************************************************)
(* C13.  An interrupt of the read changes nothing but the blank line it    *)
(* prints, and the loop reads again; an interrupted unit prints no error   *)
(* report and the units after it are dispatched; neither clears the active *)
(* flag.                                                                   *)
(***************************************************************************)
Interrupted(d) == d.result = "KeyboardInterrupt"

C13_Inv ==
    /\ Len(ErrorReports) = Len(SelectSeq(dispatched, Raised))
    /\ (pc = "next" /\ ChainLine(line) /\ SelectSeq(dispatched, Interrupted) # <<>>) =>
          /\ UnitTexts = UnitsOf(line)
          /\ (\A i \in 1..Len(dispatched) : dispatched[i].root \notin TerminationKeywords)
                => active

C13_Step ==
    /\ (pc = "loop" /\ pc' = "next" /\ line' = line /\ active') =>
          /\ out' = <<Blank>>
          /\ filename' = filename
          /\ sessions' = sessions
          /\ split_commands' = split_commands
          /\ dispatched' = <<>>
          /\ system' = <<>>
    /\ (pc = "next" /\ active) => (pc' = "loop" /\ active')

C13_SoftCancel == [](C13_Inv) /\ [][C13_Step]_vars

C13_Witness ==
    /\ pc = "next"
    /\ Len(dispatched) = 2
    /\ dispatched[1].result = "KeyboardInterrupt"
    /\ dispatched[2].result = "return"
    /\ dispatched[2].kind = "module"
    /\ out = <<>>
    /\ active

(***************************************************************************)
(* C14.  The candidates returned before any path are the command names and *)
(* module names that start with the text, each name once.  The code breaks *)
(* it: it concatenates the matches of the two tables, so a name that is in *)
(* both is returned twice.                                                 *)
(***************************************************************************)
CompleteDone ==
    /\ pc = "complete"
    /\ fn_result # <<>>
    /\ fn_result[Len(fn_result)] \in {None, IndexError}

NamesFor(text) ==
    {name \in {Spell(w) : w \in Commands \cup Modules} : has_prefix(name, text)}

C14_PhaseOneIsUnion ==
    CompleteDone =>
        \A name \in NamesFor(fn_args.text) :
            Cardinality({i \in 1..Len(fn_result) : fn_result[i] = name}) = 1

(***************************************************************************)
(* C15.  After the names, every path of the file system that starts with   *)
(* the text (its leading ~ expanded) is returned exactly once, then None,  *)
(* and no call raises.  The code breaks it: it indexes the list of paths   *)
(* with state, not with state less the number of names, so as many paths   *)
(* as there are names are skipped, and the index can pass the end.         *)
(***************************************************************************)
PathsFor(text) ==
    {f \in fn_args.fs : has_prefix(f, IF text # <<>> /\ text[1] = "~" THEN Home \o Tail(text)
                                      ELSE text)}

C15_PhaseTwoComplete ==
    CompleteDone =>
        /\ fn_result[Len(fn_result)] = None
        /\ \A f \in PathsFor(fn_args.text) :
              Cardinality({i \in 1..Len(fn_result) : fn_result[i] = f}) = 1

(***************************************************************************)
(* C16.  With a session open, Console.keywords returns the line with the   *)
(* file's path in the place of every $self and the text between the $self  *)
(* as it was; a line without $self is returned as it is, with or without a *)
(* session, and nothing is printed for it.                                 *)
(***************************************************************************)
RECURSIVE Join(_, _)
Join(parts, sep) ==
    IF Len(parts) = 1 THEN parts[1]
    ELSE parts[1] \o sep \o Join(Tail(parts), sep)

C16_Substitution ==
    pc = "returned" =>
        /\ sessions # None => fn_result = Join(split(fn_args, SELF), sessions)
        /\ ~Contains(fn_args, SELF) => fn_result = fn_args /\ out = <<>>

C16_Witness ==
    /\ pc = "returned"
    /\ sessions # None
    /\ Count(fn_args, SELF) = 2
    /\ Len(fn_args) = 3
    /\ fn_result # fn_args

(***************************************************************************)
(* C17.  The prompt holds the magenta " [not stored]" exactly when a       *)
(* session is open, it has a file, and the database does not find the      *)
(* file; without a session the prompt has no file name, no MISP summary    *)
(* and no marker; building the prompt leaves self.active and the redirect  *)
(* target as they were.                                                    *)
(***************************************************************************)
HasPiece(prompt, style) == \E i \in 1..Len(prompt) : prompt[i].style = style

HasMarker(prompt) ==
    \E i \in 1..Len(prompt) :
        prompt[i].style = "magenta" /\ prompt[i].text = <<" [not stored]">>

C17_Inv ==
    pc = "prompted" =>
        /\ HasMarker(fn_result) <=>
              (sessions # None /\ fn_args.file.present /\ ~fn_args.file.found)
        /\ sessions = None =>
              /\ ~HasPiece(fn_result, "white")
              /\ ~HasPiece(fn_result, "blue")
              /\ ~HasPiece(fn_result, "magenta")

C17_Step ==
    (pc = "prompt" /\ pc' = "prompted") => (active' = active /\ filename' = filename)

C17_NotStoredMarker == [] C17_Inv /\ [][C17_Step]_vars

C17_Witness ==
    /\ pc = "prompted"
    /\ sessions # None
    /\ fn_args.file.present
    /\ fn_args.file.found
    /\ fn_args.file.name = <<" [not stored]">>
    /\ filename # None
    /\ ~HasMarker(fn_result)

(***************************************************************************)
(* C19.  Console.parse is called only on a unit with a word in it: every   *)
(* unit dispatched has a token that is no white space, its root is a word  *)
(* and no IndexError, and the root followed by the arguments are the words *)
(* of the unit in their order.                                             *)
(***************************************************************************)
\* s with every run of white space made one space.
RECURSIVE Collapse(_)
Collapse(s) ==
    IF Len(s) < 2 THEN s
    ELSE IF s[1] = SP /\ s[2] = SP THEN Collapse(Tail(s))
    ELSE <<s[1]>> \o Collapse(Tail(s))

IsWord(w) == w # <<>> /\ w # IndexError /\ ~Contains(w, SP)

C19_ParseNeverFails ==
    \A i \in 1..Len(dispatched) :
        LET d == dispatched[i]
            tokens == <<d.root>> \o d.args
        IN  /\ \E j \in 1..Len(d.unit) : d.unit[j] # SP
            /\ \A k \in 1..Len(tokens) : IsWord(tokens[k])
            /\ Join(tokens, <<SP>>) = Collapse(d.unit)

C19_Witness ==
    /\ pc = "next"
    /\ Len(split(line, SEMI)) = 3
    /\ Len(dispatched) = 1
    /\ dispatched[1].unit # line

(***************************************************************************)
(* C20.  A typed line with $self is processed in the same way whatever the *)
(* path of the session's file: the same number of units with the same      *)
(* roots, the same redirect target, os.system called or not called alike,  *)
(* and no failure for one path only.  The code breaks it: the path is put  *)
(* into the line before the line is split at '>' and ';' and tested for a  *)
(* leading '!', so a path with these characters adds units, sets the       *)
(* target or runs a system command.                                        *)
(***************************************************************************)
C20_ShapeIndependentOfPath ==
    pc = "done" => fn_result[1] = fn_result[2]

====
